---- MODULE Spec2Model ----
(***************************************************************************)
(* The event-stream client of the Lodestone dashboard                      *)
(* (src/src/data/EventStream.ts): the useEventStream hook, its handleEvent *)
(* dispatcher, and the three caches the dispatcher writes.                 *)
(***************************************************************************)
EXTENDS Integers, Sequences, FiniteSets, TLC

VARIABLES
    instances,      \* the ['instances','list'] query cache: uuid -> InstanceInfo
    notifications,  \* the notification log of NotificationContext
    ongoing,        \* the ongoing-operation tracker of NotificationContext
    isReady,        \* LodestoneContext.isReady
    token,          \* LodestoneContext.token
    mounted,        \* the component calling useEventStream is mounted
    pc,             \* "idle", or the part of a React commit that runs next
    sessions,       \* one record per run of the effect body that got past its guards
    cur,            \* the session whose cleanup React holds, 0 when none
    uncaught,       \* errors that reached no handler
    opened,         \* the addresses the latest run of the effect body used
    last,           \* the batch of handleEvent calls the last step made
    myApp,          \* MyApp: the axios default header and its token effect
    createForm      \* InstanceCreateForm, with the module-level submitAction

vars == <<instances, notifications, ongoing, isReady, token, mounted, pc,
          sessions, cur, uncaught, opened, last, myApp, createForm>>

---------------------------------------------------------------------------
\* Bounds of the model.

\* how many times the effect body may open a session
MaxSessions == 2
\* how many envelopes reach handleEvent in one run, over all sessions
MaxCalls == 2
\* the largest player count an instance starts with
MaxPlayers == 2

---------------------------------------------------------------------------
\* The event vocabulary (bindings/ClientEvent and its payloads).

Uuids == {"X", "Y"}
Null == -1000
Tokens == {"", "t1", "t2"}

InstanceStates == {"Starting", "Running", "Stopping", "Stopped", "Error"}

\* One InstanceInfo of the registry; only the fields handleEvent reads or writes.
InstanceInfo(uuid, state, player_count) ==
    [uuid |-> uuid, state |-> state, player_count |-> player_count]

\* An event_inner payload.  All payloads share one record shape; the fields a
\* variant does not carry hold "-" or <<>>.
Inner(type, inner, uuid, joined, left, op, outcome) ==
    [type |-> type, inner |-> inner, uuid |-> uuid, players_joined |-> joined,
     players_left |-> left, event_id |-> op, outcome |-> outcome]

ClientEvent(snowflake, event_inner) ==
    [snowflake_str |-> snowflake, event_inner |-> event_inner]

LifecycleTypes ==
    {"InstanceStarting", "InstanceStarted", "InstanceStopping",
     "InstanceStopped", "InstanceError"}

InstanceEventTypes ==
    LifecycleTypes \cup
    {"InstanceWarning", "InstanceInput", "InstanceOutput", "SystemMessage",
     "PlayerChange", "PlayerMessage"}

UserEventTypes == {"UserCreated", "UserDeleted", "UserLoggedIn", "UserLoggedOut"}

MacroEventTypes == {"MacroStarted", "MacroStopped", "MacroErrored"}

\* A tag the client does not know (a server-side addition).
UnknownTag == "FutureVariant"

InstanceInners ==
    {Inner("InstanceEvent", t, "X", <<>>, <<>>, "-", "-") :
        t \in (InstanceEventTypes \ {"PlayerChange"}) \cup {UnknownTag}}
    \cup
    {Inner("InstanceEvent", "PlayerChange", "X", j, l, "-", "-") :
        j \in {<<>>, <<"a", "b">>}, l \in {<<>>, <<"c">>, <<"c", "d">>}}

UserInners ==
    {Inner("UserEvent", t, "-", <<>>, <<>>, "-", "-") :
        t \in UserEventTypes \cup {UnknownTag}}

MacroInners ==
    {Inner("MacroEvent", t, "X", <<>>, <<>>, "-", "-") :
        t \in MacroEventTypes \cup {UnknownTag}}

ProgressionInners ==
    {Inner("ProgressionEvent", t, "-", <<>>, <<>>, "op1", "-") :
        t \in {"ProgressionStart", "ProgressionUpdate"}}
    \cup
    {Inner("ProgressionEvent", "ProgressionEnd", u, <<>>, <<>>, "op1", o) :
        u \in Uuids, o \in {"-", "InstanceCreation", "InstanceDelete", "Other"}}

\* An element handleEvent cannot take apart: the element is null where an
\* envelope is expected, so the destructuring of event throws a TypeError
\* before any writer is called (EventStream.ts 58).
Undefined == Inner("undefined", "-", "-", <<>>, <<>>, "-", "-")

OtherInners ==
    {Inner("FSEvent", "-", "-", <<>>, <<>>, "-", "-"),
     Inner(UnknownTag, "-", "-", <<>>, <<>>, "-", "-"),
     Undefined}

\* Every payload the dispatcher is exercised with.
EventInners ==
    InstanceInners \cup UserInners \cup MacroInners \cup ProgressionInners
    \cup OtherInners

\* The envelopes the dispatcher alone is exercised with.
ClientEvents == {ClientEvent(1, p) : p \in EventInners}

\* The envelopes the server of the connector model holds: each snowflake
\* names one envelope.
ServerEvent(i) ==
    CASE i = 1 -> ClientEvent(1, Inner("InstanceEvent", "InstanceStarting", "X", <<>>, <<>>, "-", "-"))
      [] i = 2 -> ClientEvent(2, Inner("InstanceEvent", "InstanceStarted", "X", <<>>, <<>>, "-", "-"))
      [] OTHER -> ClientEvent(3, Inner("InstanceEvent", "InstanceStopping", "X", <<>>, <<>>, "-", "-"))

StreamEvents == {ServerEvent(i) : i \in 1..3}

\* The sequences of at most n elements of S.
SeqsUpTo(S, n) == UNION {[1..k -> S] : k \in 0..n}

\* What a catch-up response can hold: at most n envelopes of the server, each
\* once, in the order of their snowflakes.
BufferContents(n) ==
    {data \in SeqsUpTo(StreamEvents, n) :
        \A i, j \in 1..Len(data) :
            i < j => data[i].snowflake_str < data[j].snowflake_str}

---------------------------------------------------------------------------
\* The caches and their writers (data/InstanceList, data/NotificationContext).

\* The three caches as one value, with the flag "the call threw" and the
\* caches the calls of the writers went to, in program order.
Caches(inst, log, track, threw) ==
    [instances |-> inst, notifications |-> log, ongoing |-> track, threw |-> threw,
     writes |-> <<>>]

\* c after a call of a writer of the named cache.
Wrote(c, cache) == [c EXCEPT !.writes = Append(@, cache)]

Range(f) == {f[x] : x \in DOMAIN f}

\* updateInstance(uuid, queryClient, updater): patches an entry the instance
\* list already holds; an unknown uuid is left alone.  updater is a function
\* from the old InstanceInfo to the new one.
updateInstance(uuid, queryClient, updater) ==
    IF uuid \in DOMAIN queryClient
    THEN [queryClient EXCEPT ![uuid] = updater[@]]
    ELSE queryClient

\* addInstance(instance_info, queryClient): inserts (or overwrites) the entry.
addInstance(instance_info, queryClient) ==
    [u \in DOMAIN queryClient \cup {instance_info.uuid} |->
        IF u = instance_info.uuid THEN instance_info ELSE queryClient[u]]

\* deleteInstance(uuid, queryClient): removes the entry if there is one.
deleteInstance(uuid, queryClient) ==
    [u \in DOMAIN queryClient \ {uuid} |-> queryClient[u]]

\* The notification reducer: 'add' appends one entry, 'clear' empties the log.
dispatch(action, log) ==
    IF action.type = "clear"
    THEN <<>>
    ELSE Append(log, [key |-> action.event.snowflake_str, title |-> action.title])

\* The notification action handleEvent builds for an envelope.
AddAction(title, event) == [type |-> "add", title |-> title, event |-> event]

ClearAction == [type |-> "clear", title |-> "-", event |-> ClientEvent(0, Undefined)]

\* The ongoing-operation reducer: a start or an update (re)enters the
\* operation, a terminal event removes it; a terminal event for an operation
\* the tracker does not hold changes nothing.
ongoingDispatch(event, progressionEvent, track) ==
    IF progressionEvent.inner = "ProgressionEnd"
    THEN track \ {progressionEvent.event_id}
    ELSE track \cup {progressionEvent.event_id}

---------------------------------------------------------------------------
\* useEventStream: the callbacks.

\* updateInstanceState without the spread of oldInfo: the other fields are lost.
updateInstanceStateNoSpread(uuid, state, queryClient) ==
    updateInstance(uuid, queryClient,
        [oldInfo \in Range(queryClient) |->
            [oldInfo EXCEPT !.state = state, !.player_count = Null]])

\* updateInstanceState (EventStream.ts 34-41): { ...oldInfo, state }
updateInstanceState(uuid, state, queryClient) ==
    updateInstance(uuid, queryClient,
        [oldInfo \in Range(queryClient) |-> [oldInfo EXCEPT !.state = state]])

\* updateInstancePlayerCount (EventStream.ts 42-54): the count is changed only
\* when it is truthy, that is neither null nor 0.
updateInstancePlayerCount(uuid, increment, queryClient) ==
    updateInstance(uuid, queryClient,
        [oldInfo \in Range(queryClient) |->
            [oldInfo EXCEPT !.player_count =
                IF oldInfo.player_count # Null /\ oldInfo.player_count # 0
                THEN oldInfo.player_count + increment
                ELSE oldInfo.player_count]])

\* The registry state a lifecycle branch writes.
LifecycleState(t) ==
    CASE t = "InstanceStarting" -> "Starting"
      [] t = "InstanceStarted"  -> "Running"
      [] t = "InstanceStopping" -> "Stopping"
      [] t = "InstanceStopped"  -> "Stopped"
      [] t = "InstanceError"    -> "Error"

\* The title of the notification an InstanceEvent, UserEvent or MacroEvent
\* branch adds.
Title(t) ==
    CASE t = "InstanceStarting" -> "Starting instance"
      [] t = "InstanceStarted"  -> "Instance started"
      [] t = "InstanceStopping" -> "Stopping instance"
      [] t = "InstanceStopped"  -> "Instance stopped"
      [] t = "InstanceWarning"  -> "Instance encountered a warning"
      [] t = "InstanceError"    -> "Instance encountered an error"
      [] t = "PlayerChange"     -> "Joined / Left"
      [] t = "PlayerMessage"    -> "player said"
      [] t = "UserCreated"      -> "User created"
      [] t = "UserDeleted"      -> "User deleted"
      [] t = "UserLoggedIn"     -> "User logged in"
      [] t = "UserLoggedOut"    -> "User logged out"
      [] t = "MacroStarted"     -> "Macro started"
      [] t = "MacroStopped"     -> "Macro stopped"
      [] t = "MacroErrored"     -> "Macro errored"

\* LifecycleBranch with the notification guarded by fresh as well.
LifecycleBranchNotifyIfFresh(event, fresh, c) ==
    LET e == event.event_inner
        inst == Wrote([c EXCEPT !.instances =
                        updateInstanceState(e.uuid, LifecycleState(e.inner), @)],
                      "instances")
    IN  IF fresh
        THEN Wrote([inst EXCEPT !.notifications =
                        dispatch(AddAction(Title(e.inner), event), @)],
                   "notifications")
        ELSE c

\* LifecycleBranch with the state write outside the fresh guard.
LifecycleBranchAlwaysWrites(event, fresh, c) ==
    LET e == event.event_inner
        inst == Wrote([c EXCEPT !.instances =
                        updateInstanceState(e.uuid, LifecycleState(e.inner), @)],
                      "instances")
    IN  Wrote([inst EXCEPT !.notifications =
                    dispatch(AddAction(Title(e.inner), event), @)],
              "notifications")

\* The five lifecycle branches (EventStream.ts 67-98, 109-116):
\*   if (fresh) updateInstanceState(uuid, <state>); dispatch({..., type: 'add'})
LifecycleBranch(event, fresh, c) ==
    LET e == event.event_inner
        inst == IF fresh
                THEN Wrote([c EXCEPT !.instances =
                                updateInstanceState(e.uuid, LifecycleState(e.inner), @)],
                           "instances")
                ELSE c
    IN  Wrote([inst EXCEPT !.notifications =
                    dispatch(AddAction(Title(e.inner), event), @)],
              "notifications")

\* PlayerChangeBranch with the two count updates guarded by fresh.
PlayerChangeBranchIfFresh(event, fresh, c) ==
    LET e == event.event_inner
        joined == Wrote([c EXCEPT !.instances =
                            updateInstancePlayerCount(e.uuid, Len(e.players_joined), @)],
                        "instances")
        left == Wrote([joined EXCEPT !.instances =
                            updateInstancePlayerCount(e.uuid, 0 - Len(e.players_left), @)],
                      "instances")
        counted == IF fresh THEN left ELSE c
    IN  Wrote([counted EXCEPT !.notifications =
                    dispatch(AddAction(Title(e.inner), event), @)],
              "notifications")

\* PlayerChange (EventStream.ts 126-153): two successive count updates, then
\* the notification.
PlayerChangeBranch(event, fresh, c) ==
    LET e == event.event_inner
        joined == Wrote([c EXCEPT !.instances =
                            updateInstancePlayerCount(e.uuid, Len(e.players_joined), @)],
                        "instances")
        left == Wrote([joined EXCEPT !.instances =
                            updateInstancePlayerCount(e.uuid, 0 - Len(e.players_left), @)],
                      "instances")
    IN  Wrote([left EXCEPT !.notifications =
                    dispatch(AddAction(Title(e.inner), event), @)],
              "notifications")

\* InstanceEventBranch in which a live InstanceWarning also writes the state
\* Error.
InstanceEventBranchWarningWrites(event, fresh, c) ==
    LET t == event.event_inner.inner
    IN  CASE t \in LifecycleTypes -> LifecycleBranch(event, fresh, c)
          [] t = "InstanceWarning" ->
                LifecycleBranch(
                    [event EXCEPT !.event_inner.inner = "InstanceError"], fresh, c)
          [] t = "PlayerMessage" ->
                Wrote([c EXCEPT !.notifications =
                            dispatch(AddAction(Title(t), event), @)],
                      "notifications")
          [] t \in {"InstanceInput", "InstanceOutput", "SystemMessage"} -> c
          [] t = "PlayerChange" -> PlayerChangeBranch(event, fresh, c)
          [] OTHER -> c

\* The inner match of the InstanceEvent branch (EventStream.ts 61-162).  A
\* sub-event tag with no handler matches nothing.
InstanceEventBranch(event, fresh, c) ==
    LET t == event.event_inner.inner
    IN  CASE t \in LifecycleTypes -> LifecycleBranch(event, fresh, c)
          [] t \in {"InstanceWarning", "PlayerMessage"} ->
                Wrote([c EXCEPT !.notifications =
                            dispatch(AddAction(Title(t), event), @)],
                      "notifications")
          [] t \in {"InstanceInput", "InstanceOutput", "SystemMessage"} -> c
          [] t = "PlayerChange" -> PlayerChangeBranch(event, fresh, c)
          [] OTHER -> c

\* The UserEvent branch (EventStream.ts 163-197).
UserEventBranch(event, fresh, c) ==
    LET t == event.event_inner.inner
    IN  IF t \in UserEventTypes
        THEN Wrote([c EXCEPT !.notifications =
                        dispatch(AddAction(Title(t), event), @)],
                   "notifications")
        ELSE c

\* The MacroEvent branch (EventStream.ts 198-228).
MacroEventBranch(event, fresh, c) ==
    LET t == event.event_inner.inner
    IN  IF t \in MacroEventTypes
        THEN Wrote([c EXCEPT !.notifications =
                        dispatch(AddAction(Title(t), event), @)],
                   "notifications")
        ELSE c

\* ProgressionEventBranch with the outcome applied outside the fresh guard.
ProgressionEventBranchIgnoresFresh(event, fresh, c) ==
    LET e == event.event_inner
        tracked == Wrote([c EXCEPT !.ongoing = ongoingDispatch(event, e, @)],
                         "ongoing")
    IN  IF e.inner = "ProgressionEnd"
        THEN CASE e.outcome = "InstanceCreation" ->
                    Wrote([tracked EXCEPT !.instances =
                                addInstance(InstanceInfo(e.uuid, "Stopped", 0), @)],
                          "instances")
               [] e.outcome = "InstanceDelete" ->
                    Wrote([tracked EXCEPT !.instances = deleteInstance(e.uuid, @)],
                          "instances")
               [] OTHER -> tracked
        ELSE tracked

\* ProgressionEventBranch with a notification added for a ProgressionEnd.
ProgressionEventBranchNotifies(event, fresh, c) ==
    LET e == event.event_inner
        tracked == Wrote([c EXCEPT !.ongoing = ongoingDispatch(event, e, @)],
                         "ongoing")
        applied ==
            IF fresh /\ e.inner = "ProgressionEnd"
            THEN CASE e.outcome = "InstanceCreation" ->
                        Wrote([tracked EXCEPT !.instances =
                                    addInstance(InstanceInfo(e.uuid, "Stopped", 0), @)],
                              "instances")
                   [] e.outcome = "InstanceDelete" ->
                        Wrote([tracked EXCEPT !.instances = deleteInstance(e.uuid, @)],
                              "instances")
                   [] OTHER -> tracked
            ELSE tracked
    IN  IF e.inner = "ProgressionEnd"
        THEN Wrote([applied EXCEPT !.notifications =
                        dispatch(AddAction("Operation ended", event), @)],
                   "notifications")
        ELSE applied

\* ProgressionEventBranch that insists on a tracked operation: a
\* ProgressionEnd for an operation the tracker does not hold throws.
ProgressionEventBranchStrict(event, fresh, c) ==
    LET e == event.event_inner
        tracked == Wrote([c EXCEPT !.ongoing = ongoingDispatch(event, e, @)],
                         "ongoing")
    IN  IF e.inner = "ProgressionEnd" /\ e.event_id \notin c.ongoing
        THEN [c EXCEPT !.threw = TRUE]
        ELSE IF fresh /\ e.inner = "ProgressionEnd"
        THEN CASE e.outcome = "InstanceCreation" ->
                    Wrote([tracked EXCEPT !.instances =
                                addInstance(InstanceInfo(e.uuid, "Stopped", 0), @)],
                          "instances")
               [] e.outcome = "InstanceDelete" ->
                    Wrote([tracked EXCEPT !.instances = deleteInstance(e.uuid, @)],
                          "instances")
               [] OTHER -> tracked
        ELSE tracked

\* The ProgressionEvent branch (EventStream.ts 229-278): ongoingDispatch
\* always; the outcome of a ProgressionEnd is applied only when fresh.
ProgressionEventBranch(event, fresh, c) ==
    LET e == event.event_inner
        tracked == Wrote([c EXCEPT !.ongoing = ongoingDispatch(event, e, @)],
                         "ongoing")
    IN  IF fresh /\ e.inner = "ProgressionEnd"
        THEN CASE e.outcome = "InstanceCreation" ->
                    Wrote([tracked EXCEPT !.instances =
                                addInstance(InstanceInfo(e.uuid, "Stopped", 0), @)],
                          "instances")
               [] e.outcome = "InstanceDelete" ->
                    Wrote([tracked EXCEPT !.instances = deleteInstance(e.uuid, @)],
                          "instances")
               [] OTHER -> tracked
        ELSE tracked

\* handleEvent with an exhaustive outer match: a tag with no handler throws.
handleEventExhaustive(event, fresh, c) ==
    LET t == event.event_inner.type
    IN  CASE t = "InstanceEvent" -> InstanceEventBranch(event, fresh, c)
          [] t = "UserEvent" -> UserEventBranch(event, fresh, c)
          [] t = "MacroEvent" -> MacroEventBranch(event, fresh, c)
          [] t = "ProgressionEvent" -> ProgressionEventBranch(event, fresh, c)
          [] t = "FSEvent" -> c
          [] OTHER -> [c EXCEPT !.threw = TRUE]

\* handleEvent with the commented-out body of the FSEvent handler restored: an
\* FSEvent adds a notification.
handleEventNotifiesFS(event, fresh, c) ==
    LET t == event.event_inner.type
    IN  CASE t = "InstanceEvent" -> InstanceEventBranch(event, fresh, c)
          [] t = "UserEvent" -> UserEventBranch(event, fresh, c)
          [] t = "MacroEvent" -> MacroEventBranch(event, fresh, c)
          [] t = "ProgressionEvent" -> ProgressionEventBranch(event, fresh, c)
          [] t = "FSEvent" ->
                Wrote([c EXCEPT !.notifications =
                            dispatch(AddAction("FS operation on target", event), @)],
                      "notifications")
          [] t = "undefined" -> [c EXCEPT !.threw = TRUE]
          [] OTHER -> c

\* handleEvent (EventStream.ts 56-307): the outer match.  It has no default
\* branch: a tag with no handler matches nothing and the call returns.  A
\* null element makes the destructuring in line 58 throw.
handleEvent(event, fresh, c) ==
    LET t == event.event_inner.type
    IN  CASE t = "InstanceEvent" -> InstanceEventBranch(event, fresh, c)
          [] t = "UserEvent" -> UserEventBranch(event, fresh, c)
          [] t = "MacroEvent" -> MacroEventBranch(event, fresh, c)
          [] t = "ProgressionEvent" -> ProgressionEventBranch(event, fresh, c)
          [] t = "FSEvent" -> c
          [] t = "undefined" -> [c EXCEPT !.threw = TRUE]
          [] OTHER -> c

\* response.data.forEach((event) => handleEvent(event, false)) and the single
\* call of onmessage: the envelopes in order, stopping at the first throw.
RECURSIVE forEach(_, _, _)
forEach(data, fresh, c) ==
    IF data = <<>> \/ c.threw
    THEN c
    ELSE forEach(Tail(data), fresh, handleEvent(Head(data), fresh, c))

\* The envelopes of data that handleEvent is called with: all of them up to
\* and including the first one that throws.
RECURSIVE called(_, _, _)
called(data, fresh, c) ==
    IF data = <<>> \/ c.threw
    THEN <<>>
    ELSE <<Head(data)>> \o called(Tail(data), fresh, handleEvent(Head(data), fresh, c))

---------------------------------------------------------------------------
\* useEventStream: the effect (EventStream.ts 309-357) and its transports.

\* eventQuery memoised once: the filter keeps the token of the first render.
eventQueryStale(tok) == [bearer_token |-> "t1"]

\* eventQuery (EventStream.ts 22-32): the filter carries the token verbatim.
eventQuery(tok) == [bearer_token |-> tok]

\* bufferAddress and wsAddress (EventStream.ts 317-319, 327-329): both carry
\* JSON.stringify(eventQuery).
Addresses(query) == [bufferAddress |-> query, wsAddress |-> query]

\* What the effect body creates: the catch-up request in flight and the
\* WebSocket.  trace lists the envelopes the session's callbacks have handed
\* to handleEvent.
Session ==
    [fetch |-> "pending", ws |-> "open", closeCalled |-> FALSE, trace |-> <<>>]

\* The entries a batch of handleEvent calls leaves in a session's trace.
Traced(envs, fresh) ==
    [i \in 1..Len(envs) |-> [id |-> envs[i].snowflake_str, fresh |-> fresh]]

\* The server sends an envelope once over a socket, in snowflake order: the
\* next message of session s is newer than its earlier ones.
NextOnSocket(s, event) ==
    \A i \in 1..Len(sessions[s].trace) :
        sessions[s].trace[i].fresh => sessions[s].trace[i].id < event.snowflake_str

\* How many envelopes the sessions of ss have handed to handleEvent.
RECURSIVE Calls(_)
Calls(ss) ==
    IF ss = <<>> THEN 0 ELSE Len(Head(ss).trace) + Calls(Tail(ss))

NoLast ==
    [sess |-> 0, fresh |-> FALSE, envs |-> <<>>,
     pre |-> Caches(<<>>, <<>>, {}, FALSE), threw |-> FALSE, writes |-> <<>>]

\* Deliver with every envelope handed to handleEvent as a replayed one.
DeliverAsReplay(s, data, fresh, base) ==
    LET c0 == Caches(instances, notifications, ongoing, FALSE)
        c1 == forEach(data, FALSE, c0)
        envs == called(data, FALSE, c0)
    IN  /\ instances' = c1.instances
        /\ notifications' = c1.notifications
        /\ ongoing' = c1.ongoing
        /\ uncaught' = IF c1.threw THEN uncaught \cup {"TypeError"} ELSE uncaught
        /\ last' = [sess |-> s, fresh |-> fresh, envs |-> envs, pre |-> c0,
                    threw |-> c1.threw, writes |-> c1.writes]
        /\ sessions' = IF s = 0
                        THEN base
                        ELSE [base EXCEPT ![s].trace = @ \o Traced(envs, fresh)]

\* A callback of session s hands the envelopes of data to handleEvent; base
\* is the session list as the transport leaves it.
Deliver(s, data, fresh, base) ==
    LET c0 == Caches(instances, notifications, ongoing, FALSE)
        c1 == forEach(data, fresh, c0)
        envs == called(data, fresh, c0)
    IN  /\ instances' = c1.instances
        /\ notifications' = c1.notifications
        /\ ongoing' = c1.ongoing
        /\ uncaught' = IF c1.threw THEN uncaught \cup {"TypeError"} ELSE uncaught
        /\ last' = [sess |-> s, fresh |-> fresh, envs |-> envs, pre |-> c0,
                    threw |-> c1.threw, writes |-> c1.writes]
        /\ sessions' = IF s = 0
                        THEN base
                        ELSE [base EXCEPT ![s].trace = @ \o Traced(envs, fresh)]

\* The application root and the creation wizard while they take no part.
\* axios.defaults.headers.common with no header set.
NoHeaders == [h \in {} |-> ""]

\* MyApp as it is mounted: no Authorization header yet, the token effect not
\* yet run, no alert shown (alert keeps the last message shown), the clock
\* (Date.now(), in milliseconds) at 0.
NoApp == [common |-> NoHeaders, effect |-> "pending", now |-> 0, ranAt |-> 0,
          alert |-> "", invalidated |-> FALSE]

\* No final-step submission of the creation wizard has run to its request.
NoSubmission == [button |-> "", request |-> ""]

\* InstanceCreateForm before it is first opened: the module-level submitAction
\* is undefined, no file chooser is open, no submission has been made.
NoForm == [open |-> FALSE, activeStep |-> 0, submitAction |-> "undefined",
           isSubmitting |-> FALSE, chooser |-> "", done |-> NoSubmission,
           opens |-> 0]

Init ==
    /\ instances = [u \in {"X"} |-> InstanceInfo("X", "Stopped", 0)]
    /\ notifications = <<>>
    /\ ongoing = {}
    /\ isReady = FALSE
    /\ token \in Tokens
    /\ mounted = TRUE
    /\ pc = "effect"
    /\ sessions = <<>>
    /\ cur = 0
    /\ uncaught = {}
    /\ opened = Addresses(eventQuery(""))
    /\ last = NoLast
    /\ myApp = NoApp
    /\ createForm = NoForm

\* The router becomes ready, the token is replaced, or another dependency of
\* the effect (address, port, apiVersion, handleEvent) changes: React
\* schedules the cleanup of the previous run, then the effect.
ContextChange ==
    /\ mounted /\ pc = "idle"
    /\ Len(sessions) < MaxSessions
    /\ \E r \in {isReady, TRUE}, t \in Tokens :
        /\ isReady' = r
        /\ token' = t
    /\ pc' = IF cur # 0 THEN "cleanup" ELSE "effect"
    /\ last' = NoLast
    /\ UNCHANGED <<instances, notifications, ongoing, mounted, sessions, cur, uncaught, opened,
                   myApp, createForm>>

\* The owning component is torn down: React runs the cleanup, no effect.
Unmount ==
    /\ mounted /\ pc = "idle"
    /\ mounted' = FALSE
    /\ pc' = IF cur # 0 THEN "cleanup" ELSE "idle"
    /\ last' = NoLast
    /\ UNCHANGED <<instances, notifications, ongoing, isReady, token, sessions, cur, uncaught, opened,
                   myApp, createForm>>

\* A cleanup that returns without calling close().
CleanupNoClose ==
    /\ pc = "cleanup"
    /\ cur' = 0
    /\ pc' = IF mounted THEN "effect" ELSE "idle"
    /\ last' = NoLast
    /\ UNCHANGED <<instances, notifications, ongoing, isReady, token, mounted,
                   sessions, uncaught, opened,
                   myApp, createForm>>

\* A cleanup that closes the socket only while the component is mounted.
CleanupOnlyWhileMounted ==
    /\ pc = "cleanup"
    /\ sessions' = IF mounted
                   THEN [sessions EXCEPT ![cur].closeCalled = TRUE, ![cur].ws = "closed"]
                   ELSE sessions
    /\ cur' = 0
    /\ pc' = IF mounted THEN "effect" ELSE "idle"
    /\ last' = NoLast
    /\ UNCHANGED <<instances, notifications, ongoing, isReady, token, mounted, uncaught, opened,
                   myApp, createForm>>

\* The cleanup the effect returned (EventStream.ts 345-347): websocket.close().
Cleanup ==
    /\ pc = "cleanup"
    /\ sessions' = [sessions EXCEPT ![cur].closeCalled = TRUE, ![cur].ws = "closed"]
    /\ cur' = 0
    /\ pc' = IF mounted THEN "effect" ELSE "idle"
    /\ last' = NoLast
    /\ UNCHANGED <<instances, notifications, ongoing, isReady, token, mounted, uncaught, opened,
                   myApp, createForm>>

\* An effect body without the 'clear' dispatch.
EffectNoClear ==
    /\ pc = "effect"
    /\ pc' = "idle"
    /\ last' = NoLast
    /\ IF ~isReady \/ token = ""
       THEN UNCHANGED <<sessions, cur, opened>>
       ELSE /\ opened' = Addresses(eventQuery(token))
            /\ sessions' = Append(sessions, Session)
            /\ cur' = Len(sessions) + 1
    /\ UNCHANGED <<instances, notifications, ongoing, isReady, token, mounted, uncaught,
                   myApp, createForm>>

\* An effect body without the guard on the token.
EffectNoTokenGuard ==
    /\ pc = "effect"
    /\ pc' = "idle"
    /\ last' = NoLast
    /\ IF ~isReady
       THEN UNCHANGED <<notifications, sessions, cur, opened>>
       ELSE /\ notifications' = dispatch(ClearAction, notifications)
            /\ opened' = Addresses(eventQuery(token))
            /\ sessions' = Append(sessions, Session)
            /\ cur' = Len(sessions) + 1
    /\ UNCHANGED <<instances, ongoing, isReady, token, mounted, uncaught, myApp, createForm>>

\* The effect body (EventStream.ts 309-344): the two guards, then clear, the
\* catch-up request and the WebSocket, in that order and unconditionally.
Effect ==
    /\ pc = "effect"
    /\ pc' = "idle"
    /\ last' = NoLast
    /\ IF ~isReady \/ token = ""
       THEN UNCHANGED <<notifications, sessions, cur, opened>>
       ELSE /\ notifications' = dispatch(ClearAction, notifications)
            /\ opened' = Addresses(eventQuery(token))
            /\ sessions' = Append(sessions, Session)
            /\ cur' = Len(sessions) + 1
    /\ UNCHANGED <<instances, ongoing, isReady, token, mounted, uncaught, myApp, createForm>>

\* A then-callback that yields to the event loop after each envelope: one
\* envelope of the response is dispatched per step and the rest stays pending.
BufferResponseStepwise ==
    /\ pc = "idle"
    /\ \E s \in 1..Len(sessions), event \in StreamEvents :
        /\ sessions[s].fetch = "pending"
        /\ Calls(sessions) < MaxCalls
        /\ Deliver(s, <<event>>, FALSE, sessions)
    /\ UNCHANGED <<isReady, token, mounted, pc, cur, opened, myApp, createForm>>

\* The catch-up request of session s resolves (EventStream.ts 321-325).  The
\* callback runs whatever has happened to the session meanwhile.
BufferResponse ==
    /\ pc = "idle"
    /\ \E s \in 1..Len(sessions),
          data \in BufferContents(MaxCalls - Calls(sessions)) :
        /\ sessions[s].fetch = "pending"
        /\ Deliver(s, data, FALSE, [sessions EXCEPT ![s].fetch = "resolved"])
    /\ UNCHANGED <<isReady, token, mounted, pc, cur, opened, myApp, createForm>>

\* The catch-up request of session s fails (network error, the 5 s axios
\* timeout, a non-2xx status).  axios.get(...).then(...) has no rejection
\* handler: the rejection reaches nobody.
BufferFailure ==
    /\ pc = "idle"
    /\ \E s \in 1..Len(sessions) :
        /\ sessions[s].fetch = "pending"
        /\ sessions' = [sessions EXCEPT ![s].fetch = "rejected"]
    /\ uncaught' = uncaught \cup {"UnhandledRejection"}
    /\ last' = NoLast
    /\ UNCHANGED <<instances, notifications, ongoing, isReady, token, mounted, pc, cur, opened,
                   myApp, createForm>>

\* websocket.onmessage (EventStream.ts 339-343) on an open socket.
WsMessage ==
    /\ pc = "idle"
    /\ \E s \in 1..Len(sessions), event \in StreamEvents :
        /\ sessions[s].ws = "open"
        /\ Calls(sessions) < MaxCalls
        /\ NextOnSocket(s, event)
        /\ Deliver(s, <<event>>, TRUE, sessions)
    /\ UNCHANGED <<isReady, token, mounted, pc, cur, opened, myApp, createForm>>

\* websocket.onmessage (EventStream.ts 339-343) on a message whose data is not
\* JSON text: JSON.parse throws a SyntaxError before handleEvent is reached,
\* and nothing in the handler or around it catches it.  The socket stays open.
WsMalformedMessage ==
    /\ pc = "idle"
    /\ \E s \in 1..Len(sessions) :
        /\ sessions[s].ws = "open"
        /\ last' = [sess |-> s, fresh |-> TRUE, envs |-> <<>>,
                    pre |-> Caches(instances, notifications, ongoing, FALSE),
                    threw |-> TRUE, writes |-> <<>>]
    /\ uncaught' = uncaught \cup {"SyntaxError"}
    /\ UNCHANGED <<instances, notifications, ongoing, isReady, token, mounted, pc,
                   sessions, cur, opened,
                   myApp, createForm>>

\* onmessage is called for a message the transport had queued before close()
\* was called.  The handler is the same closure: it holds no generation token
\* and does not look at the socket's state.  A WebSocket that follows the
\* WHATWG standard drops such a message itself, so this step is part of
\* SpecQueued only, the transport section 5 of the specification allows.
WsLateMessage ==
    /\ pc = "idle"
    /\ \E s \in 1..Len(sessions), event \in StreamEvents :
        /\ sessions[s].ws = "closed"
        /\ Calls(sessions) < MaxCalls
        /\ NextOnSocket(s, event)
        /\ Deliver(s, <<event>>, TRUE, sessions)
    /\ UNCHANGED <<isReady, token, mounted, pc, cur, opened, myApp, createForm>>

\* An onerror that opens a new session at once.
WsErrorReconnects ==
    /\ pc = "idle"
    /\ Len(sessions) < MaxSessions
    /\ \E s \in 1..Len(sessions) :
        /\ sessions[s].ws = "open"
        /\ sessions' = Append([sessions EXCEPT ![s].ws = "errored"], Session)
    /\ cur' = Len(sessions) + 1
    /\ last' = NoLast
    /\ UNCHANGED <<instances, notifications, ongoing, isReady, token, mounted, pc,
                   uncaught, opened,
                   myApp, createForm>>

\* websocket.onerror (EventStream.ts 334-337): console.error, nothing else.
\* The transport is gone; the effect is not re-run.
WsError ==
    /\ pc = "idle"
    /\ \E s \in 1..Len(sessions) :
        /\ sessions[s].ws = "open"
        /\ sessions' = [sessions EXCEPT ![s].ws = "errored"]
    /\ last' = NoLast
    /\ UNCHANGED <<instances, notifications, ongoing, isReady, token, mounted, pc,
                   cur, uncaught, opened,
                   myApp, createForm>>

Next ==
    \/ ContextChange
    \/ Unmount
    \/ Cleanup
    \/ Effect
    \/ BufferResponse
    \/ BufferFailure
    \/ WsMessage
    \/ WsMalformedMessage
    \/ WsError

Spec == Init /\ [][Next]_vars

\* The connector over a transport that may still deliver queued messages
\* after close().
NextQueued ==
    \/ ContextChange
    \/ Unmount
    \/ Cleanup
    \/ Effect
    \/ BufferResponse
    \/ BufferFailure
    \/ WsMessage
    \/ WsMalformedMessage
    \/ WsLateMessage
    \/ WsError

SpecQueued == Init /\ [][NextQueued]_vars

---------------------------------------------------------------------------
\* The dispatcher alone: one handleEvent call on any envelope, live or
\* replayed, from any state of the caches.

Registries ==
    {[u \in {"X"} |-> InstanceInfo("X", st, n)] :
        st \in InstanceStates, n \in {Null} \cup 0..MaxPlayers}
    \cup
    {[u \in Uuids |-> InstanceInfo(u, st, 0)] : st \in {"Running", "Stopped"}}

Logs ==
    {<<>>, <<[key |-> 1, title |-> "Instance started"]>>}

InitDispatch ==
    /\ instances \in Registries
    /\ notifications \in Logs
    /\ ongoing \in SUBSET {"op1"}
    /\ isReady = FALSE
    /\ token = ""
    /\ mounted = FALSE
    /\ pc = "idle"
    /\ sessions = <<>>
    /\ cur = 0
    /\ uncaught = {}
    /\ opened = Addresses(eventQuery(""))
    /\ last = NoLast
    /\ myApp = NoApp
    /\ createForm = NoForm

Dispatch ==
    /\ last = NoLast
    /\ \E event \in ClientEvents, fresh \in BOOLEAN :
        Deliver(0, <<event>>, fresh, sessions)
    /\ UNCHANGED <<isReady, token, mounted, pc, cur, opened, myApp, createForm>>

NextDispatch == Dispatch

SpecDispatch == InitDispatch /\ [][NextDispatch]_vars

\* The envelope handleEvent was just called with is delivered once more, as
\* when the catch-up response and the socket both carry it (EventStream.ts
\* 323-324 and 341-342).  first keeps the record of the first delivery.
Redeliver ==
    /\ last # NoLast
    /\ "first" \notin DOMAIN last
    /\ Len(last.envs) = 1
    /\ \E fresh \in BOOLEAN :
        LET c0 == Caches(instances, notifications, ongoing, FALSE)
            c1 == forEach(last.envs, fresh, c0)
        IN  /\ instances' = c1.instances
            /\ notifications' = c1.notifications
            /\ ongoing' = c1.ongoing
            /\ uncaught' = IF c1.threw THEN uncaught \cup {"TypeError"} ELSE uncaught
            /\ last' = [sess |-> 0, fresh |-> fresh, envs |-> last.envs, pre |-> c0,
                        threw |-> c1.threw, writes |-> c1.writes, first |-> last]
    /\ UNCHANGED <<isReady, token, mounted, pc, sessions, cur, opened, myApp, createForm>>

NextRedeliver ==
    \/ Dispatch
    \/ Redeliver

SpecRedeliver == InitDispatch /\ [][NextRedeliver]_vars

\* The element of a catch-up response that handleEvent throws on, standing
\* where the server's second envelope would.
BadEnvelope == ClientEvent(2, Undefined)

\* What a catch-up response can hold when the server's second envelope is the
\* bad one: at most n envelopes, each once, in the order of their snowflakes.
ResponseContents(n) ==
    {data \in SeqsUpTo({ServerEvent(1), BadEnvelope, ServerEvent(3)}, n) :
        \A i, j \in 1..Len(data) :
            i < j => data[i].snowflake_str < data[j].snowflake_str}

\* The then-callback alone (EventStream.ts 321-325) on any such response:
\* response.data.forEach((event) => handleEvent(event, false)), with nothing
\* around the call that catches.  data keeps the response as it arrived.
Replay ==
    /\ last = NoLast
    /\ \E data \in ResponseContents(MaxCalls) :
        LET c0 == Caches(instances, notifications, ongoing, FALSE)
            c1 == forEach(data, FALSE, c0)
        IN  /\ instances' = c1.instances
            /\ notifications' = c1.notifications
            /\ ongoing' = c1.ongoing
            /\ uncaught' = IF c1.threw THEN uncaught \cup {"TypeError"} ELSE uncaught
            /\ last' = [sess |-> 0, fresh |-> FALSE, envs |-> called(data, FALSE, c0),
                        pre |-> c0, threw |-> c1.threw, writes |-> c1.writes,
                        data |-> data]
    /\ UNCHANGED <<isReady, token, mounted, pc, sessions, cur, opened, myApp, createForm>>

NextReplay == Replay

SpecReplay == InitDispatch /\ [][NextReplay]_vars

---------------------------------------------------------------------------
\* Properties.

\* The entries a batch of envelopes of the lifecycle variants adds to the log.
Entries(envs) ==
    [i \in 1..Len(envs) |->
        [key |-> envs[i].snowflake_str, title |-> Title(envs[i].event_inner.inner)]]

IsLifecycle(event) ==
    /\ event.event_inner.type = "InstanceEvent"
    /\ event.event_inner.inner \in LifecycleTypes

\* An envelope whose top-level tag, or whose instance, user or macro
\* sub-event tag, is not one the client knows.
IsUnknownVariant(event) ==
    \/ event.event_inner.type = UnknownTag
    \/ /\ event.event_inner.type \in {"InstanceEvent", "UserEvent", "MacroEvent"}
       /\ event.event_inner.inner = UnknownTag

\* The ids of the replayed (fresh = FALSE) entries of a trace, in order.
ReplayIds(trace) ==
    LET R == SelectSeq(trace, LAMBDA x : ~x.fresh)
    IN  [i \in 1..Len(R) |-> R[i].id]

\* C1: within one session every envelope of the catch-up response is handed
\* to handleEvent, in response order, before the first live envelope is: no
\* session's trace holds a replayed envelope after a live one, and the
\* replayed part of the trace is the response.
C1_CatchUpBeforeLive ==
    /\ \A s \in 1..Len(sessions) :
        \A i, j \in 1..Len(sessions[s].trace) :
            (i < j /\ sessions[s].trace[i].fresh) => sessions[s].trace[j].fresh
    /\ (last.sess # 0 /\ ~last.fresh) =>
        ReplayIds(sessions[last.sess].trace) =
            [i \in 1..Len(last.envs) |-> last.envs[i].snowflake_str]

\* C2 as stated: a replayed batch (isLive = false) appends nothing to the
\* notification log.
C2_ReplayAppendsNothing ==
    (last.sess # 0 /\ ~last.fresh) =>
        Len(notifications) = Len(last.pre.notifications)

\* C2 amended: handleEvent passes the 'add' action of a lifecycle InstanceEvent
\* to the notification dispatch whether isLive is false or true; after a batch
\* of n such envelopes, replayed or live, the log is the log before it followed
\* by one entry per envelope, in order.
C2_NotifiesReplayAndLive ==
    (last.sess # 0 /\ \A i \in 1..Len(last.envs) : IsLifecycle(last.envs[i])) =>
        notifications = last.pre.notifications \o Entries(last.envs)

\* C2 witness: a catch-up response of two lifecycle envelopes has been
\* replayed and the log is two entries longer.
C2_Witness ==
    /\ last.sess # 0 /\ ~last.fresh
    /\ Len(last.envs) = 2
    /\ Len(notifications) = Len(last.pre.notifications) + 2

\* C3 as stated: a lifecycle envelope for a registered instance sets its
\* registry state to the mapped value, for isLive = false as for isLive = true.
C3_StateWrittenRegardlessOfLive ==
    (last.envs # <<>> /\ IsLifecycle(last.envs[1])
        /\ last.envs[1].event_inner.uuid \in DOMAIN last.pre.instances) =>
        instances[last.envs[1].event_inner.uuid].state =
            LifecycleState(last.envs[1].event_inner.inner)

\* C3 amended: the state write is applied only when isLive = true.  A live
\* lifecycle envelope for a registered instance sets its state to the mapped
\* value and changes nothing else of the registry; a replayed one leaves the
\* registry as it was.
C3_StateWrittenOnlyWhenLive ==
    (last.envs # <<>> /\ IsLifecycle(last.envs[1])
        /\ last.envs[1].event_inner.uuid \in DOMAIN last.pre.instances) =>
        LET e == last.envs[1].event_inner
        IN  IF last.fresh
            THEN instances = [last.pre.instances EXCEPT
                                ![e.uuid].state = LifecycleState(e.inner)]
            ELSE instances = last.pre.instances

\* C3 witness: a replayed lifecycle envelope whose mapped state differs from
\* the registered state has been dispatched, and the state is still the old one.
C3_Witness ==
    /\ last.envs # <<>> /\ ~last.fresh /\ IsLifecycle(last.envs[1])
    /\ "X" \in DOMAIN last.pre.instances
    /\ last.pre.instances["X"].state # LifecycleState(last.envs[1].event_inner.inner)
    /\ instances["X"].state = last.pre.instances["X"].state

\* C4: within one session no envelope id reaches handleEvent more than once.
C4_NoIdDispatchedTwice ==
    \A s \in 1..Len(sessions) :
        \A i, j \in 1..Len(sessions[s].trace) :
            i # j => sessions[s].trace[i].id # sessions[s].trace[j].id

\* C5: at most one WebSocket has been constructed and not had close() called,
\* and when the effect body is about to run, close() has been called on every
\* socket constructed before.
C5_AtMostOneSocket ==
    /\ Cardinality({s \in 1..Len(sessions) : ~sessions[s].closeCalled}) <= 1
    /\ Cardinality({s \in 1..Len(sessions) : sessions[s].ws = "open"}) <= 1
    /\ pc = "effect" => \A s \in 1..Len(sessions) : sessions[s].closeCalled

\* C5 witness: the effect has re-run; the first socket is closed, the second open.
C5_Witness ==
    /\ Len(sessions) = 2
    /\ sessions[1].closeCalled /\ sessions[1].ws = "closed"
    /\ sessions[2].ws = "open"

\* C6: close() has been called on every socket except that of the session
\* whose cleanup React still holds; once the component is torn down and its
\* cleanup has run, close() has been called on every socket ever constructed.
C6_EverySocketClosed ==
    /\ \A s \in 1..Len(sessions) : ~sessions[s].closeCalled => s = cur
    /\ cur # 0 => (mounted \/ pc = "cleanup")
    /\ (~mounted /\ pc = "idle") => \A s \in 1..Len(sessions) : sessions[s].closeCalled

\* C6 witness: the component was torn down while a session ran, and its
\* socket has been closed.
C6_Witness ==
    /\ ~mounted /\ pc = "idle"
    /\ sessions # <<>>
    /\ sessions[Len(sessions)].closeCalled

\* C7: a failed catch-up request is reported, no WebSocket is attempted for
\* that session, and none of its envelopes reaches handleEvent.
C7_FailFast ==
    \A s \in 1..Len(sessions) :
        sessions[s].fetch = "rejected" =>
            /\ "UnhandledRejection" \notin uncaught
            /\ sessions[s].ws = "none"
            /\ sessions[s].trace = <<>>

\* C8: a catch-up response that arrives after the session's cleanup is
\* discarded: none of its envelopes reaches handleEvent and no cache changes.
C8_LateResponseDiscarded ==
    (last.sess # 0 /\ ~last.fresh /\ sessions[last.sess].closeCalled) =>
        /\ last.envs = <<>>
        /\ instances = last.pre.instances
        /\ notifications = last.pre.notifications
        /\ ongoing = last.pre.ongoing

\* C9: a live message handed to onmessage after the session's cleanup called
\* close() is not dispatched and changes no cache.
C9_LateMessageIgnored ==
    (last.sess # 0 /\ last.fresh /\ sessions[last.sess].closeCalled) =>
        /\ last.envs = <<>>
        /\ instances = last.pre.instances
        /\ notifications = last.pre.notifications
        /\ ongoing = last.pre.ongoing

\* C10: an envelope whose top-level tag, or whose instance, user or macro
\* sub-event tag, is unknown is dropped: handleEvent does not throw and the
\* registry, the operation tracker and the notification log are unchanged.
C10_UnknownVariantDropped ==
    (last.envs # <<>> /\ IsUnknownVariant(last.envs[1])) =>
        /\ ~last.threw
        /\ uncaught = {}
        /\ instances = last.pre.instances
        /\ ongoing = last.pre.ongoing
        /\ notifications = last.pre.notifications

\* C10 witness: an envelope with an unknown sub-event tag has been dispatched
\* live, with a non-empty log and a tracked operation in the caches.
C10_Witness ==
    /\ last.envs # <<>> /\ last.fresh
    /\ last.envs[1].event_inner.type = "InstanceEvent"
    /\ last.envs[1].event_inner.inner = UnknownTag
    /\ notifications # <<>> /\ ongoing # {}

\* An envelope of the PlayerChange sub-event.
IsPlayerChange(event) ==
    /\ event.event_inner.type = "InstanceEvent"
    /\ event.event_inner.inner = "PlayerChange"

\* C11: a PlayerChange for a registered instance whose player_count is the
\* number c leaves it at exactly c + len(joined) - len(left), for every c,
\* c = 0 included, and every pair of lists.
C11_PlayerCountDelta ==
    (Len(last.envs) = 1 /\ IsPlayerChange(last.envs[1])
        /\ last.envs[1].event_inner.uuid \in DOMAIN last.pre.instances
        /\ last.pre.instances[last.envs[1].event_inner.uuid].player_count # Null) =>
        LET e == last.envs[1].event_inner
        IN  instances[e.uuid].player_count =
                last.pre.instances[e.uuid].player_count
                    + Len(e.players_joined) - Len(e.players_left)

IsProgression(event) == event.event_inner.type = "ProgressionEvent"

\* A ProgressionEnd dispatched live whose outcome is the named one.
IsLiveEnd(event, fresh, outcome) ==
    /\ fresh
    /\ IsProgression(event)
    /\ event.event_inner.inner = "ProgressionEnd"
    /\ event.event_inner.outcome = outcome

\* C12 as stated: while a ProgressionEvent is dispatched the key set of the
\* registry changes if and only if the event is a live ProgressionEnd whose
\* outcome is InstanceCreation or InstanceDelete.
C12_KeysChangeIffLiveOutcome ==
    (Len(last.envs) = 1 /\ IsProgression(last.envs[1])) =>
        ((DOMAIN instances # DOMAIN last.pre.instances) <=>
            (\/ IsLiveEnd(last.envs[1], last.fresh, "InstanceCreation")
             \/ IsLiveEnd(last.envs[1], last.fresh, "InstanceDelete")))

\* C12 amended: while a ProgressionEvent is dispatched the registry changes
\* only if the event is a live ProgressionEnd whose outcome is InstanceCreation
\* or InstanceDelete.  After a live InstanceCreation the key set is the old one
\* with the instance's uuid added (the same key set when the uuid was already
\* registered), after a live InstanceDelete it is the old one without the uuid
\* (the same key set when the uuid was not registered), and every other entry
\* is as it was.  ProgressionStart, ProgressionUpdate, a ProgressionEnd with no
\* or another outcome, and every replayed event leave the registry unchanged.
C12_KeysChangeOnlyOnLiveOutcome ==
    (Len(last.envs) = 1 /\ IsProgression(last.envs[1])) =>
        LET e == last.envs[1].event_inner
            pre == last.pre.instances
        IN  CASE IsLiveEnd(last.envs[1], last.fresh, "InstanceCreation") ->
                    /\ DOMAIN instances = DOMAIN pre \cup {e.uuid}
                    /\ \A u \in DOMAIN pre \ {e.uuid} : instances[u] = pre[u]
              [] IsLiveEnd(last.envs[1], last.fresh, "InstanceDelete") ->
                    /\ DOMAIN instances = DOMAIN pre \ {e.uuid}
                    /\ \A u \in DOMAIN instances : instances[u] = pre[u]
              [] OTHER -> instances = pre

\* C12 witness: a live ProgressionEnd with outcome InstanceCreation for Y has
\* been dispatched on a registry that held X only, and Y is registered now.
C12_Witness ==
    /\ Len(last.envs) = 1
    /\ IsLiveEnd(last.envs[1], last.fresh, "InstanceCreation")
    /\ last.envs[1].event_inner.uuid = "Y"
    /\ DOMAIN last.pre.instances = {"X"}
    /\ DOMAIN instances = {"X", "Y"}

\* The envelope of the last call was a ProgressionEnd delivered for the second
\* time.
IsRedeliveredEnd ==
    /\ "first" \in DOMAIN last
    /\ IsProgression(last.envs[1])
    /\ last.envs[1].event_inner.inner = "ProgressionEnd"

C14_RegistryBeforeNotification ==
    Len(last.envs) = 1 =>
        \A i, j \in 1..Len(last.writes) :
            (last.writes[i] = "instances"
                /\ last.writes[j] \in {"notifications", "ongoing"}) => i < j

\* The only session of the run has had its catch-up response replayed (every
\* envelope of the server is a lifecycle InstanceEvent for X) and its socket
\* has delivered exactly one message, the InstanceStarted for X.
CatchUpThenOneStarted ==
    /\ Len(sessions) = 1
    /\ sessions[1].fetch = "resolved"
    /\ LET live == SelectSeq(sessions[1].trace, LAMBDA x : x.fresh)
       IN  /\ Len(live) = 1
           /\ ServerEvent(live[1].id).event_inner.inner = "InstanceStarted"

\* The log entry the dispatch of the server's envelope with this id leaves.
EntryOf(id) == [key |-> id, title |-> Title(ServerEvent(id).event_inner.inner)]

C16_MappedStateFromAnyState ==
    Len(last.envs) = 1 =>
        LET e == last.envs[1].event_inner
            pre == last.pre.instances
        IN  /\ (IsLifecycle(last.envs[1]) /\ last.fresh /\ e.uuid \in DOMAIN pre) =>
                /\ LifecycleState(e.inner) \in InstanceStates
                /\ DOMAIN instances = DOMAIN pre
                /\ instances[e.uuid] =
                     InstanceInfo(e.uuid, LifecycleState(e.inner), pre[e.uuid].player_count)
                /\ \A u \in DOMAIN pre \ {e.uuid} : instances[u] = pre[u]
            /\ (e.type = "InstanceEvent" /\ ~(IsLifecycle(last.envs[1]) /\ last.fresh)) =>
                /\ DOMAIN instances = DOMAIN pre
                /\ \A u \in DOMAIN pre : instances[u].state = pre[u].state
            /\ \A u \in DOMAIN instances : instances[u].state \in InstanceStates

\* C16 witness: a live InstanceStopping has been dispatched for an instance
\* that was Stopped with two players; it is Stopping now, still with two.
C16_Witness ==
    /\ Len(last.envs) = 1 /\ last.fresh
    /\ IsLifecycle(last.envs[1])
    /\ last.envs[1].event_inner.inner = "InstanceStopping"
    /\ last.pre.instances["X"] = InstanceInfo("X", "Stopped", 2)
    /\ instances["X"] = InstanceInfo("X", "Stopping", 2)

\* An envelope of one of the four UserEvent kinds.
IsUserEvent(event) ==
    /\ event.event_inner.type = "UserEvent"
    /\ event.event_inner.inner \in UserEventTypes

IsFSEvent(event) == event.event_inner.type = "FSEvent"

\* C17 as stated: a UserEvent or an FSEvent leaves the registry and the
\* operation tracker alone, and dispatched live it appends one entry to the
\* notification log.
C17_UserAndFSAppendOneEntry ==
    (Len(last.envs) = 1 /\ (IsUserEvent(last.envs[1]) \/ IsFSEvent(last.envs[1]))) =>
        /\ instances = last.pre.instances
        /\ ongoing = last.pre.ongoing
        /\ last.fresh => Len(notifications) = Len(last.pre.notifications) + 1

\* C17 amended: a UserEvent (UserCreated, UserDeleted, UserLoggedIn,
\* UserLoggedOut) appends exactly one entry to the notification log, live or
\* replayed; an FSEvent appends nothing, its handler has no effect at all;
\* neither changes the registry or the operation tracker.
C17_UserAppendsFSDoesNothing ==
    (Len(last.envs) = 1 /\ (IsUserEvent(last.envs[1]) \/ IsFSEvent(last.envs[1]))) =>
        /\ instances = last.pre.instances
        /\ ongoing = last.pre.ongoing
        /\ ~last.threw
        /\ IF IsUserEvent(last.envs[1])
           THEN notifications = last.pre.notifications \o Entries(last.envs)
           ELSE notifications = last.pre.notifications /\ last.writes = <<>>

\* C17 witness: an FSEvent has been dispatched live and the log, which held an
\* entry, is as it was.
C17_Witness ==
    /\ Len(last.envs) = 1 /\ last.fresh
    /\ IsFSEvent(last.envs[1])
    /\ last.pre.notifications # <<>>
    /\ notifications = last.pre.notifications

C19_TokenRotationRestarts ==
    [][ /\ token' # token =>
            /\ sessions' = sessions
            /\ pc' = IF cur # 0 THEN "cleanup" ELSE "effect"
        /\ pc = "cleanup" =>
            /\ sessions'[cur].closeCalled /\ sessions'[cur].ws = "closed"
            /\ Len(sessions') = Len(sessions)
            /\ pc' = IF mounted THEN "effect" ELSE "idle"
        /\ (pc = "effect" /\ isReady /\ token # "") =>
            /\ \A s \in 1..Len(sessions) : sessions[s].closeCalled
            /\ notifications' = <<>>
            /\ sessions' = Append(sessions, Session)
            /\ cur' = Len(sessions')
            /\ opened'.bufferAddress.bearer_token = token
            /\ opened'.wsAddress.bearer_token = token
        /\ (pc' = "idle" /\ mounted' /\ isReady' /\ token' # "") =>
            /\ cur' # 0 /\ cur' = Len(sessions')
            /\ ~sessions'[cur'].closeCalled
            /\ \A s \in 1..(cur' - 1) : sessions'[s].closeCalled
            /\ opened'.bufferAddress.bearer_token = token'
            /\ opened'.wsAddress.bearer_token = token'
      ]_vars

\* C19 witness: the token was replaced by another non-empty one while a
\* session ran with a ready context; the socket of that session has been
\* closed and the effect body is about to run with the new token.
C19_Witness ==
    /\ pc = "effect" /\ mounted /\ isReady
    /\ sessions # <<>>
    /\ sessions[Len(sessions)].closeCalled
    /\ opened.wsAddress.bearer_token # ""
    /\ token \notin {"", opened.wsAddress.bearer_token}

\* C20: a ProgressionEnd for an operation the tracker does not hold, because
\* its ProgressionStart never arrived or because an earlier ProgressionEnd
\* removed it, is tolerated: handleEvent does not throw and the tracker is as
\* it was.
C20_UnknownOperationTolerated ==
    (Len(last.envs) = 1 /\ IsProgression(last.envs[1])
        /\ last.envs[1].event_inner.inner = "ProgressionEnd"
        /\ last.envs[1].event_inner.event_id \notin last.pre.ongoing) =>
        /\ ~last.threw
        /\ uncaught = {}
        /\ ongoing = last.pre.ongoing

\* C20 witness: the ProgressionEnd of a tracked operation was dispatched, which
\* removed it, and then dispatched again, live, on the tracker without it.
C20_Witness ==
    /\ IsRedeliveredEnd
    /\ last.fresh
    /\ last.envs[1].event_inner.event_id \in last.first.pre.ongoing
    /\ last.envs[1].event_inner.event_id \notin last.pre.ongoing
    /\ ongoing = {}
    /\ ~last.threw

\* C21: the player count is not clamped at zero.  A PlayerChange whose
\* players_left outnumber the count plus players_joined leaves the negative
\* number c + len(joined) - len(left), and a PlayerChange on a count that is
\* zero or negative still changes it by len(joined) - len(left).
C21_NeverClampedAtZero ==
    (Len(last.envs) = 1 /\ IsPlayerChange(last.envs[1])
        /\ last.envs[1].event_inner.uuid \in DOMAIN last.pre.instances) =>
        LET e == last.envs[1].event_inner
            c == last.pre.instances[e.uuid].player_count
            after == c + Len(e.players_joined) - Len(e.players_left)
        IN  (c # Null /\ (c <= 0 \/ after < 0)) =>
                instances[e.uuid].player_count = after

\* How often the named cache occurs in a sequence of writer calls.
CallsTo(writes, cache) == Len(SelectSeq(writes, LAMBDA w : w = cache))

\* C22: the writes to the operation tracker and to the player count do not
\* depend on isLive.  Every ProgressionEvent, replayed or live, makes exactly
\* one ongoingDispatch call, after which the tracker holds the operation
\* unless the event was its ProgressionEnd.  Every PlayerChange, replayed or
\* live, makes its two updateInstancePlayerCount calls, and the count they
\* leave for a registered instance is determined by the count before and the
\* two lists alone: c + len(joined) - len(left) for a count c that is neither
\* null nor 0.
C22_TrackerAndCountIgnoreIsLive ==
    Len(last.envs) = 1 =>
        LET e == last.envs[1].event_inner
            pre == last.pre
        IN  /\ IsProgression(last.envs[1]) =>
                /\ CallsTo(last.writes, "ongoing") = 1
                /\ ongoing = IF e.inner = "ProgressionEnd"
                             THEN pre.ongoing \ {e.event_id}
                             ELSE pre.ongoing \cup {e.event_id}
            /\ IsPlayerChange(last.envs[1]) =>
                /\ last.writes = <<"instances", "instances", "notifications">>
                /\ DOMAIN instances = DOMAIN pre.instances
                /\ \A u \in DOMAIN pre.instances \ {e.uuid} :
                        instances[u] = pre.instances[u]
                /\ (e.uuid \in DOMAIN pre.instances
                        /\ pre.instances[e.uuid].player_count \notin {Null, 0}) =>
                    instances[e.uuid].player_count =
                        pre.instances[e.uuid].player_count
                            + Len(e.players_joined) - Len(e.players_left)

\* C22 witness: a replayed PlayerChange with two players joined and one left
\* has raised the count of X from 1 to 2.
C22_Witness ==
    /\ Len(last.envs) = 1 /\ ~last.fresh
    /\ IsPlayerChange(last.envs[1])
    /\ Len(last.envs[1].event_inner.players_joined) = 2
    /\ Len(last.envs[1].event_inner.players_left) = 1
    /\ last.pre.instances["X"].player_count = 1
    /\ instances["X"].player_count = 2

\* onmessage has just run on a message that is not JSON text.
IsMalformedDelivery == last.sess # 0 /\ last.fresh /\ last.envs = <<>>

\* C23: a malformed live message reaches no unhandled failure: onmessage does
\* not throw, no error goes uncaught, no cache changes and the socket goes on
\* delivering.
C23_MalformedMessageHandled ==
    IsMalformedDelivery =>
        /\ ~last.threw
        /\ "SyntaxError" \notin uncaught
        /\ instances = last.pre.instances
        /\ notifications = last.pre.notifications
        /\ ongoing = last.pre.ongoing
        /\ sessions[last.sess].ws = "open"

\* C24: the catch-up response is dispatched as one uninterrupted block and
\* envelopes are dispatched one after the other.  While the catch-up request
\* of a session is pending none of its envelopes has been dispatched; the
\* step that resolves it dispatches all of them, in order, with no other
\* dispatch in between; so in the trace of a session no live envelope stands
\* between two replayed ones, and the replayed envelopes of the trace are
\* those of the one batch that resolved the request.
C24_CatchUpIsOneBlock ==
    /\ \A s \in 1..Len(sessions) :
        /\ sessions[s].fetch # "resolved" => ReplayIds(sessions[s].trace) = <<>>
        /\ \A i, j, k \in 1..Len(sessions[s].trace) :
            (i < j /\ j < k /\ ~sessions[s].trace[i].fresh
                /\ ~sessions[s].trace[k].fresh) => ~sessions[s].trace[j].fresh
    /\ (last.sess # 0 /\ ~last.fresh) =>
        /\ sessions[last.sess].fetch = "resolved"
        /\ Len(ReplayIds(sessions[last.sess].trace)) = Len(last.envs)
    /\ (last.sess # 0 /\ last.fresh) => Len(last.envs) <= 1

\* C24 witness: a catch-up response of two envelopes has been dispatched in
\* one step while the socket of the session was open; the trace of the session
\* holds the two and nothing else.
C24_Witness ==
    /\ last.sess # 0 /\ ~last.fresh
    /\ Len(last.envs) = 2
    /\ sessions[last.sess].ws = "open"
    /\ sessions[last.sess].trace = Traced(last.envs, FALSE)

\* The envelopes of a response that are not the bad one.
GoodOnes(data) == SelectSeq(data, LAMBDA ev : ev # BadEnvelope)

\* C25: an envelope of the catch-up response whose dispatch fails does not
\* stop the replay: every envelope of the response is handed to handleEvent,
\* and every envelope other than the failing one leaves its notification.
C25_ReplaySurvivesBadEnvelope ==
    "data" \in DOMAIN last =>
        /\ last.envs = last.data
        /\ notifications = last.pre.notifications \o Entries(GoodOnes(last.data))

\* C26: every start of a session clears the notification log before any
\* envelope of that session is dispatched.  The step that creates a session
\* leaves the log empty and the session with a pending request and nothing
\* dispatched; any other step that changes the log is a dispatch and appends
\* the entries of the envelopes it dispatched to the log as it was.  So the
\* log never holds more entries than envelopes were dispatched since the
\* latest clear, and every envelope of the latest session has its entry.
C26_StartClearsLog ==
    /\ [][ /\ Len(sessions') > Len(sessions) =>
                /\ notifications' = <<>>
                /\ sessions'[Len(sessions')].trace = <<>>
                /\ sessions'[Len(sessions')].fetch = "pending"
           /\ (notifications' # notifications /\ Len(sessions') = Len(sessions)) =>
                /\ last'.sess # 0 /\ last'.envs # <<>>
                /\ notifications' = notifications \o Entries(last'.envs)
         ]_vars
    /\ [](sessions # <<>> =>
            /\ Len(notifications) >= Len(sessions[Len(sessions)].trace)
            /\ Len(notifications) <= Calls(sessions))

\* C26 witness: the first session dispatched an envelope, the second session
\* has started and dispatched nothing yet, and the log is empty.
C26_Witness ==
    /\ Len(sessions) = 2 /\ cur = 2 /\ pc = "idle"
    /\ sessions[1].trace # <<>>
    /\ sessions[2].trace = <<>>
    /\ sessions[2].fetch = "pending" /\ sessions[2].ws = "open"
    /\ notifications = <<>>

\* C27: no session is started without credentials.  A run of the effect body
\* while the context is not ready or the token is empty clears nothing and
\* creates no session (no catch-up request, no WebSocket); every session was
\* created with a non-empty token in its addresses; and whenever the
\* component is idle with an empty token or a context that is not ready,
\* React holds no session, close() has been called on every socket and none
\* is open.
C27_NoSessionWithoutCredentials ==
    /\ [][ (pc = "effect" /\ (~isReady \/ token = "")) =>
                /\ notifications' = notifications
                /\ sessions' = sessions
                /\ cur' = cur /\ opened' = opened
         ]_vars
    /\ [](sessions # <<>> => opened.wsAddress.bearer_token # "")
    /\ []((pc = "idle" /\ (~isReady \/ token = "")) =>
            /\ cur = 0
            /\ \A s \in 1..Len(sessions) :
                sessions[s].closeCalled /\ sessions[s].ws # "open")

\* C27 witness: a session ran and dispatched an envelope, then the token
\* became empty: the socket has been closed, no session has been added, and
\* the log still holds its entry.
C27_Witness ==
    /\ pc = "idle" /\ mounted /\ isReady /\ token = ""
    /\ Len(sessions) = 1 /\ cur = 0
    /\ sessions[1].closeCalled /\ sessions[1].ws = "closed"
    /\ notifications # <<>>

\* The InstanceEvent kinds that only write to the console.
ConsoleTypes == {"InstanceInput", "InstanceOutput", "SystemMessage"}

\* An envelope of a kind that has no registry writer: InstanceWarning,
\* InstanceInput, InstanceOutput, SystemMessage, PlayerMessage, any MacroEvent.
IsRegistryNeutral(event) ==
    \/ /\ event.event_inner.type = "InstanceEvent"
       /\ event.event_inner.inner \in ConsoleTypes \cup {"InstanceWarning", "PlayerMessage"}
    \/ /\ event.event_inner.type = "MacroEvent"
       /\ event.event_inner.inner \in MacroEventTypes

\* C28: only a live lifecycle InstanceEvent, a PlayerChange and a live
\* ProgressionEnd with an outcome change the registry.  InstanceWarning,
\* InstanceInput, InstanceOutput, SystemMessage, PlayerMessage and every
\* MacroEvent leave the registry and the operation tracker as they were, live
\* or replayed; InstanceInput, InstanceOutput and SystemMessage leave the
\* notification log as it was too, and the other kinds add their one entry.
C28_OnlyThreeKindsWriteRegistry ==
    Len(last.envs) = 1 =>
        /\ instances # last.pre.instances =>
            \/ IsLifecycle(last.envs[1]) /\ last.fresh
            \/ IsPlayerChange(last.envs[1])
            \/ IsLiveEnd(last.envs[1], last.fresh, "InstanceCreation")
            \/ IsLiveEnd(last.envs[1], last.fresh, "InstanceDelete")
        /\ IsRegistryNeutral(last.envs[1]) =>
            /\ instances = last.pre.instances
            /\ ongoing = last.pre.ongoing
            /\ CallsTo(last.writes, "instances") = 0
            /\ ~last.threw
            /\ IF last.envs[1].event_inner.inner \in ConsoleTypes
               THEN notifications = last.pre.notifications /\ last.writes = <<>>
               ELSE notifications = last.pre.notifications \o Entries(last.envs)

\* C28 witness: an InstanceWarning has been dispatched live for X, which was
\* Running with two players; X is as it was and the log has one more entry.
C28_Witness ==
    /\ Len(last.envs) = 1 /\ last.fresh
    /\ last.envs[1].event_inner.type = "InstanceEvent"
    /\ last.envs[1].event_inner.inner = "InstanceWarning"
    /\ last.pre.instances["X"] = InstanceInfo("X", "Running", 2)
    /\ instances = last.pre.instances
    /\ Len(notifications) = Len(last.pre.notifications) + 1

---------------------------------------------------------------------------
\* The application root: the token effect of MyApp.

\* The values the stored token takes here: none, a string that is no JWT,
\* JWTs whose payload has exp (in seconds), and a JWT whose payload has none.
JwtTokens == {"", "garbage", "jwt.exp1", "jwt.exp2", "jwt.noexp"}

\* The values Date.now() takes: before, at and after each expiry instant.
Instants == {0, 999, 1000, 1999, 2000}

MsPerSecond == 1000

NaN == -2000

\* jwt.decode(token, { complete: true }): null for a string that is no JWT,
\* else the decoded token, whose payload holds exp when the JWT carries it.
decode(tok) ==
    CASE tok = "jwt.exp1" -> [null |-> FALSE, payload |-> [exp |-> 1]]
      [] tok = "jwt.exp2" -> [null |-> FALSE, payload |-> [exp |-> 2]]
      [] tok = "jwt.noexp" -> [null |-> FALSE, payload |-> [iat |-> 0]]
      [] OTHER -> [null |-> TRUE]

\* const { exp } = decoded.payload, then exp * k: exp is undefined when the
\* payload has none, and undefined * k is NaN.
expTimes(decoded, k) ==
    IF "exp" \in DOMAIN decoded.payload THEN decoded.payload.exp * k ELSE NaN

\* a >= b in JavaScript: false when b is NaN.
GreaterEq(a, b) == b # NaN /\ a >= b

\* `Bearer ${token}`
Bearer(tok) == "Bearer " \o tok

\* delete axios.defaults.headers.common['Authorization']
deleteHeader(common, name) == [h \in DOMAIN common \ {name} |-> common[h]]

\* axios.defaults.headers.common['Authorization'] = value
setHeader(common, name, value) ==
    [h \in DOMAIN common \cup {name} |-> IF h = name THEN value ELSE common[h]]

\* The try block without the expiry test.
ThrownNoExpiry(tok, now) ==
    IF decode(tok).null THEN "Invalid token" ELSE ""

\* The message of the error the try block throws for tok at instant now, ""
\* when it throws none (part_002 424-427).
Thrown(tok, now) ==
    IF decode(tok).null THEN "Invalid token"
    ELSE IF GreaterEq(now, expTimes(decode(tok), MsPerSecond)) THEN "Token expired"
    ELSE ""

InitToken ==
    /\ instances = [u \in Uuids |-> Null]
    /\ notifications = <<>>
    /\ ongoing = {}
    /\ isReady = FALSE
    /\ token \in JwtTokens
    /\ mounted = FALSE
    /\ pc = "idle"
    /\ sessions = <<>>
    /\ cur = 0
    /\ uncaught = {}
    /\ opened = Addresses(eventQuery(""))
    /\ last = NoLast
    /\ myApp = NoApp
    /\ createForm = NoForm

\* setToken(tok) by a login, a logout or another tab (useLocalStorage): the
\* stored token changes, so the effect is due again.
SetToken ==
    /\ myApp.effect = "done"
    /\ \E tok \in JwtTokens \ {token} :
        /\ token' = tok
        /\ myApp' = [myApp EXCEPT !.effect = "pending"]
    /\ UNCHANGED <<instances, notifications, ongoing, isReady, mounted, pc, sessions,
                   cur, uncaught, opened, last, createForm>>

\* Time passes.
Tick ==
    /\ \E n \in Instants :
        /\ n > myApp.now
        /\ myApp' = [myApp EXCEPT !.now = n]
    /\ UNCHANGED <<instances, notifications, ongoing, isReady, token, mounted, pc,
                   sessions, cur, uncaught, opened, last, createForm>>

\* The layout effect on [token] (part_002 418-436), whole: the early return
\* for no token, else the try block, its catch with alert, setToken('') and
\* the removal of the header, then queryClient.invalidateQueries().
TokenEffect ==
    /\ myApp.effect = "pending"
    /\ LET message == Thrown(token, myApp.now)
           Authorization == "Authorization"
       IN  IF token = ""
           THEN /\ myApp' = [myApp EXCEPT
                                !.common = deleteHeader(@, Authorization),
                                !.effect = "done", !.ranAt = myApp.now,
                                !.invalidated = FALSE]
                /\ token' = token
           ELSE IF message = ""
           THEN /\ myApp' = [myApp EXCEPT
                                !.common = setHeader(@, Authorization, Bearer(token)),
                                !.effect = "done", !.ranAt = myApp.now,
                                !.invalidated = TRUE]
                /\ token' = token
           ELSE /\ myApp' = [myApp EXCEPT
                                !.common = deleteHeader(@, Authorization),
                                !.effect = "pending", !.ranAt = myApp.now,
                                !.alert = message, !.invalidated = TRUE]
                /\ token' = ""
    /\ UNCHANGED <<instances, notifications, ongoing, isReady, mounted, pc, sessions,
                   cur, uncaught, opened, last, createForm>>

NextToken == SetToken \/ Tick \/ TokenEffect

SpecToken == InitToken /\ [][NextToken]_vars

\* A string jwt.decode takes apart.
IsJwt(tok) == ~decode(tok).null

\* The JWT tok has an expiry instant and t (in milliseconds) is not before it.
ExpiredAt(tok, t) ==
    /\ "exp" \in DOMAIN decode(tok).payload
    /\ t >= decode(tok).payload.exp * MsPerSecond

\* C29: after the token effect has run, the Authorization header is present
\* if and only if the stored token is non-empty, decodes as a JWT and was not
\* expired when the effect ran, and then it is "Bearer " followed by the
\* token; and a run of the effect on a non-empty token that does not decode
\* or is expired replaces it by the empty token and removes the header.
C29_HeaderIffValidToken ==
    /\ [](myApp.effect = "done" =>
            LET present == "Authorization" \in DOMAIN myApp.common
            IN  /\ present <=> /\ token # ""
                               /\ IsJwt(token)
                               /\ ~ExpiredAt(token, myApp.ranAt)
                /\ present => myApp.common.Authorization = "Bearer " \o token)
    /\ [][(/\ myApp.effect = "pending"
           /\ myApp'.now = myApp.now
           /\ token # ""
           /\ (~IsJwt(token) \/ ExpiredAt(token, myApp.now))) =>
            /\ token' = ""
            /\ "Authorization" \notin DOMAIN myApp'.common
         ]_vars

\* C29 witness: an expired token has been replaced (the alert was shown), and
\* after a later login the effect has run at the expiry instant of the first
\* JWT on the second JWT, whose header is now set.
C29_Witness ==
    /\ myApp.effect = "done"
    /\ myApp.alert = "Token expired"
    /\ myApp.ranAt = 1000
    /\ token = "jwt.exp2"
    /\ myApp.common = [Authorization |-> "Bearer jwt.exp2"]

---------------------------------------------------------------------------
\* The instance-creation wizard: InstanceCreateForm and its submitAction.

\* How many times the wizard is opened.
MaxOpens == 3

\* sections.length - 1: the step at which formReady holds.
LastStep == 3

formReady(form) == form.activeStep = LastStep

InitForm ==
    /\ instances = [u \in Uuids |-> Null]
    /\ notifications = <<>>
    /\ ongoing = {}
    /\ isReady = FALSE
    /\ token = ""
    /\ mounted = FALSE
    /\ pc = "idle"
    /\ sessions = <<>>
    /\ cur = 0
    /\ uncaught = {}
    /\ opened = Addresses(eventQuery(""))
    /\ last = NoLast
    /\ myApp = NoApp
    /\ createForm = NoForm

\* The variables the wizard does not touch.
othersForm == <<instances, notifications, ongoing, isReady, token, mounted, pc,
                sessions, cur, uncaught, opened, last, myApp>>

\* The wizard is opened: the component mounts with useState(0) and a new
\* Formik; submitAction is a variable of the module and is not initialised
\* again.
OpenForm ==
    /\ ~createForm.open
    /\ createForm.opens < MaxOpens
    /\ createForm' = [createForm EXCEPT !.open = TRUE, !.activeStep = 0,
                                        !.isSubmitting = FALSE,
                                        !.opens = @ + 1]
    /\ UNCHANGED othersForm

\* The user closes the wizard without submitting.
CloseForm ==
    /\ createForm.open
    /\ createForm.chooser = ""
    /\ createForm' = [createForm EXCEPT !.open = FALSE]
    /\ UNCHANGED othersForm

\* handleSubmit from the final step (229-246) up to its first await or its
\* end, for the submission button started: with submitAction "upload" it
\* awaits chooseFiles, else it calls submitForm without a path, which takes
\* createInstance, and onComplete.
handleSubmit(form, button) ==
    IF form.submitAction = "upload"
    THEN [form EXCEPT !.chooser = button, !.isSubmitting = TRUE]
    ELSE [form EXCEPT !.done = [button |-> button, request |-> "createInstance"],
                      !.open = FALSE]

\* A click on 'Upload' (335-344, rendered when formReady): its onClick sets
\* submitAction, then the button submits the form; Formik calls handleSubmit
\* when the fields are valid.
ClickUpload ==
    /\ createForm.open /\ formReady(createForm)
    /\ ~createForm.isSubmitting
    /\ \E valid \in BOOLEAN :
        LET set == [createForm EXCEPT !.submitAction = "upload"]
        IN  createForm' = IF valid THEN handleSubmit(set, "Upload") ELSE set
    /\ UNCHANGED othersForm

\* A click on 'Create Instance' (345-350 when formReady): the button has no
\* onClick and submits the form.
ClickCreate ==
    /\ createForm.open /\ formReady(createForm)
    /\ ~createForm.isSubmitting
    /\ \E valid \in BOOLEAN :
        createForm' = IF valid THEN handleSubmit(createForm, "Create Instance")
                      ELSE createForm
    /\ UNCHANGED othersForm

\* A click on 'Next' (the same button before the final step): handleSubmit
\* 247-254 advances when the manifest is loaded.
ClickNext ==
    /\ createForm.open /\ ~formReady(createForm)
    /\ ~createForm.isSubmitting
    /\ \E setup_manifest \in BOOLEAN :
        createForm' = IF setup_manifest
                      THEN [createForm EXCEPT !.activeStep = @ + 1]
                      ELSE createForm
    /\ UNCHANGED othersForm

\* handleBack (257-264), rendered when activeStep is not 0.
handleBack ==
    /\ createForm.open /\ createForm.activeStep # 0
    /\ ~createForm.isSubmitting
    /\ createForm' = [createForm EXCEPT !.activeStep = @ - 1]
    /\ UNCHANGED othersForm

\* chooseFiles resolves with no file: handleSubmit returns (232-234).  Formik
\* ends the submission when the handler's promise settles; whether the
\* buttons take clicks again in this form is left open.
CancelChoice ==
    /\ createForm.chooser # ""
    /\ \E stuck \in BOOLEAN :
        createForm' = [createForm EXCEPT !.chooser = "", !.isSubmitting = stuck]
    /\ UNCHANGED othersForm

\* chooseFiles resolves with a file (235-242): uploadFile, then submitForm
\* with the path, which tests submitAction == "upload" && path and takes
\* uploadInstance, then onComplete.
ChooseFile ==
    /\ createForm.chooser # ""
    /\ createForm' = [createForm EXCEPT
            !.done = [button |-> createForm.chooser,
                      request |-> IF createForm.submitAction = "upload"
                                  THEN "uploadInstance" ELSE "createInstance"],
            !.chooser = "", !.isSubmitting = FALSE, !.open = FALSE]
    /\ UNCHANGED othersForm

NextForm ==
    \/ OpenForm
    \/ CloseForm
    \/ ClickUpload
    \/ ClickCreate
    \/ ClickNext
    \/ handleBack
    \/ CancelChoice
    \/ ChooseFile

SpecForm == InitForm /\ [][NextForm]_vars

\* C30: a final-step submission started by the 'Create Instance' button takes
\* the create path, with no file chooser and createInstance as its request,
\* whatever was clicked before; a file chooser and uploadInstance belong only
\* to a submission started by the 'Upload' button.
C30_CreateButtonAlwaysCreates ==
    /\ createForm.chooser # "Create Instance"
    /\ createForm.done.button = "Create Instance" =>
            createForm.done.request = "createInstance"
    /\ createForm.done.request = "uploadInstance" =>
            createForm.done.button = "Upload"

====
